---- MODULE Spec2Model ----
(***************************************************************************)
(* Protocol engine of the robot facade (app/robot/robot.py) together with  *)
(* the packet framing it relies on (app/robot/packet.py) and the payload   *)
(* decoders of app/robot/types.py.                                         *)
(*                                                                         *)
(* The asyncio event loop is single threaded: every action below is one    *)
(* run-to-completion stretch of Python code between two suspension points. *)
(* Coroutines that suspend (in Bluetooth.write or on a future) are kept in *)
(* the pool `coros`; futures made by loop.create_future() are kept in the  *)
(* pool `futures`.                                                         *)
(***************************************************************************)
EXTENDS Integers, Sequences, FiniteSets, TLC

(***************************************************************************)
(* Bounds of the model.                                                    *)
(***************************************************************************)
MaxCoros == 2       \* coroutines / tasks ever created
MaxFutures == 2     \* futures ever created
MaxInc == 2         \* sequence values a caller may allocate in one run
MaxHandlers == 2    \* user handlers registered under one event key
HandlerSteps == 1   \* resumptions a user handler needs to complete
MaxReads == 258     \* consecutive reads of the sequence counter after run()

(***************************************************************************)
(* Packet (app/robot/packet.py).  Bytes are integers 0..255, byte strings  *)
(* are sequences; Python index i is TLA+ index i+1.                        *)
(***************************************************************************)
PACKET_LEN == 20
PAYLOAD_LEN == 16

NoCrc == -1         \* crc=None of a locally constructed packet

Zeros(n) == [i \in 1..n |-> 0]

\* x ^ 0x07 for a value whose bits above bit 2 are left alone
Xor07(x) == (x - (x % 8)) + (7 - (x % 8))

\* one turn of the inner loop of calc_crc: bit i of byte c enters crc
CrcBit(crc, c, i) ==
    LET top == (crc \div 128) % 2
        inp == (c \div (2 ^ (7 - i))) % 2
        b == (top + inp) % 2
        shifted == crc * 2
    IN  IF b = 1 THEN Xor07(shifted) ELSE shifted

RECURSIVE CrcByte(_, _, _)
\* the eight turns for one byte; the register is masked after the byte
CrcByte(crc, c, i) ==
    IF i = 8 THEN crc % 256
    ELSE LET next == CrcBit(crc, c, i)
         IN  IF next >= 0 THEN CrcByte(next, c, i + 1) ELSE -1

RECURSIVE CrcBytes(_, _, _)
\* the loop `for c in self.packet()` from byte k on
CrcBytes(crc, bytes, k) ==
    IF k > Len(bytes) THEN crc
    ELSE LET next == CrcByte(crc, bytes[k], 0)
         IN  IF next >= 0 THEN CrcBytes(next, bytes, k + 1) ELSE -1

\* Packet.__init__: the payload is padded with zero bytes to PAYLOAD_LEN
Packet(dev, cmd, seq, payload, crc) ==
    [dev |-> dev, cmd |-> cmd, inc |-> seq,
     payload |-> payload \o Zeros(PAYLOAD_LEN - Len(payload)),
     crc |-> crc]

\* Packet.packet: the 19 bytes without crc
packet(p) == <<p.dev, p.cmd, p.inc>> \o p.payload

\* calc_crc that leaves out the last byte of the payload
calc_crc_short(p) == CrcBytes(0, SubSeq(packet(p), 1, 18), 1)

calc_crc(p) == CrcBytes(0, packet(p), 1)

to_bytes(p) == packet(p) \o <<calc_crc(p)>>

\* Packet.from_bytes, defined for len(raw) == PACKET_LEN (asserted there)
from_bytes(raw) ==
    Packet(raw[1], raw[2], raw[3], SubSeq(raw, 4, 19), raw[20])

\* check_crc that only asks whether a CRC byte was stored
check_crc_stored_only(p) == p.crc # NoCrc

check_crc(p) == IF p.crc = NoCrc THEN FALSE ELSE p.crc = calc_crc(p)

(***************************************************************************)
(* Python values that are tested for truth (`if args:`).                   *)
(***************************************************************************)
None == [t |-> "None"]
Bool(b) == [t |-> "bool", b |-> b]
Obj(v) == [t |-> "obj", v |-> v]

\* bool(x): None and False are falsy; Packet and the dataclasses define
\* neither __bool__ nor __len__, so every instance is truthy
Truthy(x) == IF x.t = "bool" THEN x.b ELSE x.t = "obj"

(***************************************************************************)
(* Domain types (app/robot/types.py).                                      *)
(***************************************************************************)
\* Bumper.from_packet: bits 0x80 and 0x40 of payload[4]
Bumper_from_packet(p) ==
    [left |-> (p.payload[5] \div 128) % 2 = 1,
     right |-> (p.payload[5] \div 64) % 2 = 1]

\* the class attributes of Color that the filters use
Color_ANY == -1
Color_WHITE == 0
Color_BLACK == 1
Color_RED == 2

\* Color.from_packet: two readings per payload byte, the high four bits
\* first
Color_from_packet(p) ==
    [j \in 1..(2 * PAYLOAD_LEN) |->
        LET c == p.payload[(j + 1) \div 2]
        IN  IF j % 2 = 1 THEN (c \div 16) % 16 ELSE c % 16]

\* round(a / b) of Python for positive integers: to the nearest integer,
\* a tie to the even one
round_div(a, b) ==
    LET q == a \div b
        twice == 2 * (a % b)
    IN  IF twice < b THEN q
        ELSE IF twice > b THEN q + 1
        ELSE IF q % 2 = 0 THEN q ELSE q + 1

(***************************************************************************)
(* struct.pack(">i", v): big-endian two's complement, 4 bytes.             *)
(***************************************************************************)
U32(u) == <<u \div 16777216, (u \div 65536) % 256, (u \div 256) % 256, u % 256>>
I32(v) == IF v >= 0 THEN U32(v) ELSE [i \in 1..4 |-> 255 - U32((-v) - 1)[i]]

\* unpack(">H", b[k:k+2])[0] and unpack(">h", ...)[0], k a Python index
U16(b, k) == b[k + 1] * 256 + b[k + 2]
S16(b, k) == IF U16(b, k) >= 32768 THEN U16(b, k) - 65536 ELSE U16(b, k)

\* Robot.bound
bound(value, low, high) ==
    LET m == IF low > value THEN low ELSE value
    IN  IF high < m THEN high ELSE m

(***************************************************************************)
(* State of the Robot object and of the event loop around it.              *)
(***************************************************************************)
VARIABLES
    responses,       \* self._responses: (dev, cmd, inc) -> future id
    events,          \* self._events: (dev, cmd) -> list of (filter, callback)
    tasks,           \* self._tasks: (dev, cmd) -> task (index into coros)
    inc,             \* self._inc
    running,         \* self._running
    motors_enabled,  \* self._enable_motors
    futures,         \* every future made by loop.create_future()
    coros,           \* every coroutine that was suspended or scheduled
    tx,              \* frames handed to Bluetooth.write by the last step
    last             \* the operation the last step performed

vars == <<responses, events, tasks, inc, running, motors_enabled,
          futures, coros, tx, last>>

\* the fields of the Robot object itself
robot_vars == <<responses, events, tasks, inc, running, motors_enabled>>

EmptyMap == [k \in {} |-> 0]

\* what a step reports: the operation, the frame it dispatched, the
\* exception that left it, the future it resolved, the number of filters it
\* evaluated and the tasks it created
Did(op, arg) ==
    [op |-> op, arg |-> arg, exc |-> "", resolved |-> 0, offered |-> 0,
     started |-> <<>>]

\* Robot.__init__
Init ==
    /\ responses = EmptyMap
    /\ events = EmptyMap
    /\ tasks = EmptyMap
    /\ inc = 0
    /\ running = FALSE
    /\ motors_enabled = TRUE
    /\ futures = <<>>
    /\ coros = <<>>
    /\ tx = <<>>
    /\ last = Did("init", <<>>)

\* the `inc` property with the wrap one value late
next_inc_wraps_late(i) == IF i + 1 > 256 THEN 0 ELSE i + 1

\* the `inc` property: the value it leaves in self._inc
next_inc(i) == IF i + 1 > 255 THEN 0 ELSE i + 1

RECURSIVE inc_reads(_, _)
\* the values n consecutive reads of the `inc` property return when
\* self._inc is i: the first half of the reads, then the others from the
\* value the first half left in self._inc
inc_reads(i, n) ==
    IF n = 0 THEN <<>>
    ELSE IF n = 1 THEN <<i>>
    ELSE LET h == n \div 2
             first == inc_reads(i, h)
         IN  first \o inc_reads(next_inc(first[h]), n - h)

(***************************************************************************)
(* Event registry entries: the filter closure and the callback.            *)
(***************************************************************************)
Entry(filter, farg, callback) ==
    [filter |-> filter, farg |-> farg, callback |-> callback]

COLOR_EVENT == <<4, 2>>
STOP_EVENT == <<0, 4>>
STALL_EVENT == <<1, 29>>
CLIFF_EVENT == <<20, 0>>
BUMP_EVENT == <<12, 0>>

\* the three subscriptions run() installs
BuiltinEvents ==
    [k \in {STOP_EVENT, STALL_EVENT, CLIFF_EVENT} |->
        IF k = STOP_EVENT THEN <<Entry("packet", None, "stop")>>
        ELSE IF k = STALL_EVENT THEN <<Entry("False", None, "enable_motors")>>
        ELSE <<Entry("cliff", None, "enable_motors")>>]

\* run without `self._responses = {}`
run_keeps_responses ==
    /\ responses' = responses
    /\ events' = BuiltinEvents
    /\ tasks' = EmptyMap
    /\ inc' = 0
    /\ running' = TRUE
    /\ tx' = <<>>
    /\ last' = Did("run", <<>>)
    /\ UNCHANGED <<motors_enabled, futures, coros>>

\* run without `self._inc = 0`
run_keeps_counter ==
    /\ responses' = EmptyMap
    /\ events' = BuiltinEvents
    /\ tasks' = EmptyMap
    /\ inc' = inc
    /\ running' = TRUE
    /\ tx' = <<>>
    /\ last' = Did("run", <<>>)
    /\ UNCHANGED <<motors_enabled, futures, coros>>

\* Robot.run: no await inside, so it runs to completion in one step
run ==
    /\ responses' = EmptyMap
    /\ events' = BuiltinEvents
    /\ tasks' = EmptyMap
    /\ inc' = 0
    /\ running' = TRUE
    /\ tx' = <<>>
    /\ last' = Did("run", <<>>)
    /\ UNCHANGED <<motors_enabled, futures, coros>>

\* Robot.enable_motors
enable_motors(enable) ==
    /\ motors_enabled' = enable
    /\ tx' = <<>>
    /\ last' = Did("enable_motors", <<>>)
    /\ UNCHANGED <<responses, events, tasks, inc, running, futures, coros>>

(***************************************************************************)
(* Registration of user handlers (the on_bump decorator).  The handlers    *)
(* are those of examples/events.py.                                        *)
(***************************************************************************)
Bumper(left, right) == [left |-> left, right |-> right]

\* the on_bump handlers of examples/events.py, in the order of the file
BumpHandlers ==
    << Entry("bump", None, "any_bumps"),
       Entry("bump", Obj(Bumper(TRUE, TRUE)), "both_bumps"),
       Entry("bump", Obj(Bumper(TRUE, FALSE)), "left_bumps") >>

\* self._events[key].append(entry) on a defaultdict(list)
events_append(ev, key, entry) ==
    IF key \in DOMAIN ev
    THEN [ev EXCEPT ![key] = Append(@, entry)]
    ELSE (key :> <<entry>>) @@ ev

EventLen(ev, key) == IF key \in DOMAIN ev THEN Len(ev[key]) ELSE 0

\* Robot.on_bump(filter)(callback): the script registers its next handler
on_bump ==
    LET n == EventLen(events, BUMP_EVENT)
    IN  /\ n < MaxHandlers
        /\ n < Len(BumpHandlers)
        /\ events' = events_append(events, BUMP_EVENT, BumpHandlers[n + 1])
        /\ tx' = <<>>
        /\ last' = Did("on_bump", <<>>)
        /\ UNCHANGED <<responses, tasks, inc, running, motors_enabled,
                       futures, coros>>

\* the zones of on_color's filter_function: colors[i : i + chunk] for i in
\* range(0, len(colors), chunk)
color_zones(colors, chunk) ==
    [z \in 1..((Len(colors) + chunk - 1) \div chunk) |->
        SubSeq(colors, (z - 1) * chunk + 1,
               IF z * chunk < Len(colors) THEN z * chunk ELSE Len(colors))]

\* the filter_function of on_color for a Color filter: zip() pairs the
\* filter entries with the zones up to the shorter of the two
color_filter(filter, p) ==
    LET colors == Color_from_packet(p)
        chunk == round_div(Len(colors), Len(filter))
        zones == color_zones(colors, chunk)
        pairs == IF Len(filter) < Len(zones) THEN Len(filter) ELSE Len(zones)
    IN  IF \A i \in 1..pairs :
              \/ filter[i] = Color_ANY
              \/ \E j \in 1..Len(zones[i]) : zones[i][j] = filter[i]
        THEN Obj(colors) ELSE None

\* Robot.on_color(filter)(callback): filter is None or Obj(filter.colors)
on_color(filter) ==
    /\ EventLen(events, COLOR_EVENT) < MaxHandlers
    /\ events' = events_append(events, COLOR_EVENT,
                               Entry("color", filter, "black_in_center"))
    /\ tx' = <<>>
    /\ last' = Did("on_color", <<>>)
    /\ UNCHANGED <<responses, tasks, inc, running, motors_enabled,
                   futures, coros>>

\* the filter closures: what filter(packet) returns
filter_function(e, p) ==
    CASE e.filter = "packet" -> Obj(p)
      [] e.filter = "color" ->
            IF e.farg.t = "None" THEN Obj(Color_from_packet(p))
            ELSE color_filter(e.farg.v, p)
      [] e.filter = "False" -> Bool(FALSE)
      [] e.filter = "cliff" -> Bool(p.payload[5] = 0)
      [] e.filter = "bump" ->
            LET bumper == Bumper_from_packet(p)
            IN  IF e.farg.t = "None" THEN Obj(bumper)
                ELSE IF e.farg.v = bumper THEN Obj(bumper)
                ELSE None

(***************************************************************************)
(* Coroutines.  pc is where the coroutine is suspended:                    *)
(*   "start"  a task made by create_task that has not run yet              *)
(*   "write"  inside `await self._bluetooth.write(...)`                    *)
(*   "await"  inside `await future`                                        *)
(*   "body"   a user handler suspended at one of its own awaits            *)
(*   "done", "cancelled"                                                   *)
(* key is the event key of a handler task, <<>> for a direct call; ret is  *)
(* the value the coroutine returned once it is "done"; arg is the local    *)
(* `buf` of say and steps the number of iterations its loop has begun.     *)
(***************************************************************************)
Coro(fn, pc, key, fut) ==
    [fn |-> fn, pc |-> pc, key |-> key, fut |-> fut, steps |-> 0,
     ret |-> None, arg |-> <<>>]

Finished(c) == c.pc \in {"done", "cancelled"}

\* Task.cancel(): a finished task is left alone, any other one never
\* resumes its coroutine body
cancel(cs, t) ==
    IF Finished(cs[t]) THEN cs ELSE [cs EXCEPT ![t].pc = "cancelled"]

\* cancel_previous with the cancellation left out
cancel_previous_never(tk, cs, key) == cs

\* the statement `if key in self._tasks: self._tasks[key].cancel()`
cancel_previous(tk, cs, key) ==
    IF key \in DOMAIN tk THEN cancel(cs, tk[key]) ELSE cs

RECURSIVE dispatch_events(_, _, _, _)
\* the loop `for (filter, callback) in self._events[key]` from entry i on;
\* st carries the state the loop has produced so far
dispatch_events(p, key, i, st) ==
    IF i > Len(events[key]) THEN st
    ELSE
      LET e == events[key][i]
          args == filter_function(e, p)
          st1 == [st EXCEPT !.offered = @ + 1]
      IN
        IF ~Truthy(args) THEN dispatch_events(p, key, i + 1, st1)
        ELSE
          LET cs == cancel_previous(st1.tasks, st1.coros, key)
          IN
            IF e.callback = "enable_motors"
            THEN \* enable_motors(args) runs and returns None;
                 \* create_task(None) raises TypeError, which ends the loop
                 [st1 EXCEPT !.coros = cs,
                             !.motors_enabled = args.b,
                             !.exc = "TypeError"]
            ELSE
              LET id == Len(cs) + 1
              IN  dispatch_events(p, key, i + 1,
                    [st1 EXCEPT
                       !.coros = Append(cs, Coro(e.callback, "start", key, 0)),
                       !.tasks = (key :> id) @@ @,
                       !.started = Append(@, id)])

\* dispatch that matches the pending slots on (device, command) only: it
\* removes and resolves every slot of the command, whatever its sequence
dispatch_any_sequence(p) ==
    LET hits == { k \in DOMAIN responses : k[1] = p.dev /\ k[2] = p.cmd }
        fids == { responses[k] : k \in hits }
        resp == [k \in DOMAIN responses \ hits |-> responses[k]]
        futs == [f \in DOMAIN futures |->
                   IF f \in fids /\ futures[f].state = "pending"
                   THEN [state |-> "done", result |-> Obj(p)]
                   ELSE futures[f]]
        st0 == [responses |-> resp, futures |-> futs, tasks |-> tasks,
                coros |-> coros, motors_enabled |-> motors_enabled,
                exc |-> "",
                resolved |-> IF <<p.dev, p.cmd, p.inc>> \in hits
                             THEN responses[<<p.dev, p.cmd, p.inc>>] ELSE 0,
                offered |-> 0, started |-> <<>>]
        ekey == <<p.dev, p.cmd>>
    IN  IF ekey \in DOMAIN events THEN dispatch_events(p, ekey, 1, st0)
        ELSE st0

\* Robot._data_received past the CRC check
dispatch(p) ==
    LET key == <<p.dev, p.cmd, p.inc>>
        hit == key \in DOMAIN responses
        fid == responses[key]
        resp == IF hit THEN [k \in DOMAIN responses \ {key} |-> responses[k]]
                ELSE responses
        futs == IF hit /\ futures[fid].state = "pending"
                THEN [futures EXCEPT ![fid] = [state |-> "done", result |-> Obj(p)]]
                ELSE futures
        st0 == [responses |-> resp, futures |-> futs, tasks |-> tasks,
                coros |-> coros, motors_enabled |-> motors_enabled,
                exc |-> "",
                resolved |-> IF futs # futures THEN fid ELSE 0,
                offered |-> 0, started |-> <<>>]
        ekey == <<p.dev, p.cmd>>
    IN  IF ekey \in DOMAIN events THEN dispatch_events(p, ekey, 1, st0)
        ELSE st0

(***************************************************************************)
(* The byte strings the transport may deliver.                             *)
(***************************************************************************)
\* payload with byte 4 set, as the event frames of the robot carry it
P4(b) == <<0, 0, 0, 0, b>>

RxEvents ==
    { Packet(0, 4, 0, <<>>, NoCrc),         \* stop notification
      Packet(1, 29, 0, <<>>, NoCrc),        \* stall
      Packet(20, 0, 0, P4(0), NoCrc),       \* cliff, byte 4 = 0
      Packet(20, 0, 0, P4(1), NoCrc),       \* cliff, byte 4 = 1
      Packet(12, 0, 0, P4(192), NoCrc),     \* bump left and right
      Packet(12, 0, 0, P4(128), NoCrc) }    \* bump left

RxReplies ==
    { Packet(k[1], k[2], i, <<>>, NoCrc) :
        k \in {<<14, 1>>, <<1, 16>>}, i \in 0..(MaxInc - 1) }

\* a frame whose last byte is not the CRC of the first 19
corrupt(raw) == [raw EXCEPT ![20] = (@ + 1) % 256]

RxData ==
    { to_bytes(p) : p \in RxEvents \cup RxReplies }
    \cup { corrupt(to_bytes(Packet(0, 4, 0, <<>>, NoCrc))) }
    \cup { Zeros(19) }

\* the payload of a battery reply: bytes 4..5 the voltage in mV, byte 6 the
\* percentage
BatteryPayload(mV, percent) ==
    <<0, 0, 0, 0, mV \div 256, mV % 256, percent>>

\* replies to get_battery_level that report 4000 mV and 80 %
RxBattery ==
    { Packet(14, 1, i, BatteryPayload(4000, 80), NoCrc) : i \in 0..(MaxInc - 1) }

\* payload whose reading j (from 0) is colour c, the others WHITE
ColorPayload(j, c) ==
    [b \in 1..PAYLOAD_LEN |->
        IF b = (j \div 2) + 1 THEN (IF j % 2 = 0 THEN c * 16 ELSE c) ELSE 0]

\* colour events: all WHITE, BLACK in reading 0, BLACK in reading 12, RED
\* in reading 31
RxColor ==
    { Packet(4, 2, 0, <<>>, NoCrc),
      Packet(4, 2, 0, ColorPayload(0, Color_BLACK), NoCrc),
      Packet(4, 2, 0, ColorPayload(12, Color_BLACK), NoCrc),
      Packet(4, 2, 0, ColorPayload(31, Color_RED), NoCrc) }

\* the filters a script registers: none, the one of examples/events.py,
\* and filters of 1 and of 12 entries that ask for RED in the last zone
ColorFilters ==
    { None,
      Obj(<<Color_ANY, Color_BLACK, Color_ANY>>),
      Obj(<<Color_RED>>),
      Obj([i \in 1..12 |-> IF i = 12 THEN Color_RED ELSE Color_ANY]) }

\* the first battery reply and the stop notification with a CRC byte that
\* does not match
RxCorrupt ==
    { corrupt(to_bytes(Packet(14, 1, 0, BatteryPayload(4000, 80), NoCrc))),
      corrupt(to_bytes(Packet(0, 4, 0, <<>>, NoCrc))) }

\* chunks that are not PACKET_LEN bytes long
RxMisframed == { Zeros(PACKET_LEN - 1), Zeros(PACKET_LEN + 1) }

\* the acknowledgements of say
RxSay == { to_bytes(Packet(5, 4, i, <<>>, NoCrc)) : i \in 0..(MaxInc - 1) }

\* the battery replies as the transport delivers them
RxReply == { to_bytes(p) : p \in RxBattery }

\* what a link may deliver: replies, damaged frames, chunks of other sizes
RxLink == RxReply \cup RxCorrupt \cup RxMisframed

\* packet.check_crc() of the packet parsed from each 20-byte string the
\* transport may deliver, computed once
CrcChecked ==
    [d \in {x \in RxData \cup RxLink \cup RxSay
                     \cup {to_bytes(p) : p \in RxColor} :
               Len(x) = PACKET_LEN} |->
        check_crc(from_bytes(d))]

\* _data_received without the `if not self._running: return` in front
data_received_idle_too(data) ==
    /\ tx' = <<>>
    /\ UNCHANGED <<events, inc, running>>
    /\ IF Len(data) # PACKET_LEN
       THEN /\ last' = [Did("data_received", <<>>) EXCEPT !.exc = "AssertionError"]
            /\ UNCHANGED <<responses, tasks, motors_enabled, futures, coros>>
       ELSE IF ~CrcChecked[data]
       THEN /\ last' = Did("data_received", <<>>)
            /\ UNCHANGED <<responses, tasks, motors_enabled, futures, coros>>
       ELSE LET st == dispatch(from_bytes(data))
            IN  /\ Len(st.coros) <= MaxCoros
                /\ responses' = st.responses
                /\ futures' = st.futures
                /\ tasks' = st.tasks
                /\ coros' = st.coros
                /\ motors_enabled' = st.motors_enabled
                /\ last' = [Did("data_received", data) EXCEPT
                              !.exc = st.exc,
                              !.resolved = st.resolved,
                              !.offered = st.offered,
                              !.started = st.started]

\* Robot._data_received
data_received(data) ==
    /\ tx' = <<>>
    /\ UNCHANGED <<events, inc, running>>
    /\ IF ~running
       THEN /\ last' = Did("data_received", <<>>)
            /\ UNCHANGED <<responses, tasks, motors_enabled, futures, coros>>
       ELSE IF Len(data) # PACKET_LEN
       THEN \* the assert of Packet.from_bytes fails
            /\ last' = [Did("data_received", <<>>) EXCEPT !.exc = "AssertionError"]
            /\ UNCHANGED <<responses, tasks, motors_enabled, futures, coros>>
       ELSE IF ~CrcChecked[data]
       THEN /\ last' = Did("data_received", <<>>)
            /\ UNCHANGED <<responses, tasks, motors_enabled, futures, coros>>
       ELSE LET st == dispatch(from_bytes(data))
            IN  /\ Len(st.coros) <= MaxCoros
                /\ responses' = st.responses
                /\ futures' = st.futures
                /\ tasks' = st.tasks
                /\ coros' = st.coros
                /\ motors_enabled' = st.motors_enabled
                /\ last' = [Did("data_received", data) EXCEPT
                              !.exc = st.exc,
                              !.resolved = st.resolved,
                              !.offered = st.offered,
                              !.started = st.started]

\* Bluetooth._disconnected and the callback it calls, App.disconnected: the
\* first clears the fields of the Bluetooth object, the second updates the
\* page; no statement of either touches the Robot object, a future or a
\* task
disconnected ==
    /\ tx' = <<>>
    /\ last' = Did("disconnected", <<>>)
    /\ UNCHANGED <<robot_vars, futures, coros>>

(***************************************************************************)
(* Robot.stop and Robot.write_packet.                                      *)
(***************************************************************************)
STOP_PACKET(seq) == Packet(0, 3, seq, <<>>, NoCrc)

\* stop that marks the engine idle before the transport took the frame
stop_idle_at_once ==
    /\ inc < MaxInc
    /\ inc' = next_inc(inc)
    /\ last' = Did("stop", <<>>)
    /\ UNCHANGED <<responses, events, tasks, motors_enabled, futures>>
    /\ IF running
       THEN /\ Len(coros) < MaxCoros
            /\ tx' = <<STOP_PACKET(inc)>>
            /\ coros' = Append(coros, Coro("stop", "write", <<>>, 0))
            /\ running' = FALSE
       ELSE /\ tx' = <<>>
            /\ coros' = coros
            /\ running' = FALSE

\* stop() called directly (App.play): it runs up to the write; when the
\* robot is not running write_packet returns at once and so does stop()
stop ==
    /\ inc < MaxInc
    /\ inc' = next_inc(inc)
    /\ last' = Did("stop", <<>>)
    /\ UNCHANGED <<responses, events, tasks, motors_enabled, futures>>
    /\ IF running
       THEN /\ Len(coros) < MaxCoros
            /\ tx' = <<STOP_PACKET(inc)>>
            /\ coros' = Append(coros, Coro("stop", "write", <<>>, 0))
            /\ running' = running
       ELSE /\ tx' = <<>>
            /\ coros' = coros
            /\ running' = FALSE

\* first run of a task made from the stop handler: the same code
stop_task(t) ==
    /\ t \in DOMAIN coros
    /\ coros[t].fn = "stop"
    /\ coros[t].pc = "start"
    /\ inc' = next_inc(inc)
    /\ last' = Did("stop_task", <<>>)
    /\ UNCHANGED <<responses, events, tasks, motors_enabled, futures>>
    /\ IF running
       THEN /\ tx' = <<STOP_PACKET(inc)>>
            /\ coros' = [coros EXCEPT ![t].pc = "write"]
            /\ running' = running
       ELSE /\ tx' = <<>>
            /\ coros' = [coros EXCEPT ![t].pc = "done"]
            /\ running' = FALSE

\* stop_resume without `self._running = False`
stop_resume_stays_running(t) ==
    /\ t \in DOMAIN coros
    /\ coros[t].fn = "stop"
    /\ coros[t].pc = "write"
    /\ running' = running
    /\ coros' = [coros EXCEPT ![t].pc = "done"]
    /\ tx' = <<>>
    /\ last' = Did("stop_resume", <<>>)
    /\ UNCHANGED <<responses, events, tasks, inc, motors_enabled, futures>>

\* the transport accepted the write: stop() continues with
\* `self._running = False`
stop_resume(t) ==
    /\ t \in DOMAIN coros
    /\ coros[t].fn = "stop"
    /\ coros[t].pc = "write"
    /\ running' = FALSE
    /\ coros' = [coros EXCEPT ![t].pc = "done"]
    /\ tx' = <<>>
    /\ last' = Did("stop_resume", <<>>)
    /\ UNCHANGED <<responses, events, tasks, inc, motors_enabled, futures>>

\* one resumption of a user handler task (examples/events.py)
handler_step(t) ==
    /\ t \in DOMAIN coros
    /\ coros[t].key \in {BUMP_EVENT, COLOR_EVENT}
    /\ coros[t].pc \in {"start", "body"}
    /\ coros' = [coros EXCEPT
                   ![t].steps = @ + 1,
                   ![t].pc = IF coros[t].steps + 1 >= HandlerSteps
                             THEN "done" ELSE "body"]
    /\ tx' = <<>>
    /\ last' = Did("handler_step", <<>>)
    /\ UNCHANGED <<responses, events, tasks, inc, running, motors_enabled,
                   futures>>

(***************************************************************************)
(* Commands.  A numeric argument x of a motor command is represented by    *)
(* int(x * 10), the integer the method computes from it first.             *)
(***************************************************************************)
Scaled == {-150, 50}
Positions == {0, 99}

MotorGated ==
    {"set_speeds", "set_left_speed", "set_right_speed", "drive_distance",
     "turn_right", "turn_left", "arc", "set_marker"}

\* send_only whose write_packet has no `if self._running:` in front of the
\* write
send_only_while_idle(m, dev, cmd, payload) ==
    /\ inc < MaxInc
    /\ inc' = next_inc(inc)
    /\ tx' = <<Packet(dev, cmd, inc, payload, NoCrc)>>
    /\ last' = Did(m, <<>>)
    /\ UNCHANGED <<responses, events, tasks, running, motors_enabled,
                   futures, coros>>

\* `await self.write_packet(Packet(dev, cmd, self.inc, payload))` of a
\* command that expects no reply; after the write only debug() follows
send_only(m, dev, cmd, payload) ==
    /\ inc < MaxInc
    /\ inc' = next_inc(inc)
    /\ tx' = IF running THEN <<Packet(dev, cmd, inc, payload, NoCrc)>> ELSE <<>>
    /\ last' = Did(m, <<>>)
    /\ UNCHANGED <<responses, events, tasks, running, motors_enabled,
                   futures, coros>>

\* request that has not stored the future in self._responses when it
\* suspends in the write
request_sends_first(m, dev, cmd, payload) ==
    /\ inc < MaxInc
    /\ Len(futures) < MaxFutures
    /\ Len(coros) < MaxCoros
    /\ inc' = next_inc(inc)
    /\ futures' = Append(futures, [state |-> "pending", result |-> None])
    /\ responses' = responses
    /\ tx' = IF running THEN <<Packet(dev, cmd, inc, payload, NoCrc)>> ELSE <<>>
    /\ coros' = Append(coros, Coro(m, IF running THEN "write" ELSE "await",
                                   <<>>, Len(futures) + 1))
    /\ last' = Did(m, <<>>)
    /\ UNCHANGED <<events, tasks, running, motors_enabled>>

\* a command that expects a reply, up to its first suspension:
\*   dev, cmd, inc = ..., self.inc
\*   future = self._loop.create_future()
\*   self._responses[(dev, cmd, inc)] = future
\*   await self.write_packet(Packet(dev, cmd, inc, payload))
request(m, dev, cmd, payload) ==
    /\ inc < MaxInc
    /\ Len(futures) < MaxFutures
    /\ Len(coros) < MaxCoros
    /\ inc' = next_inc(inc)
    /\ futures' = Append(futures, [state |-> "pending", result |-> None])
    /\ responses' = (<<dev, cmd, inc>> :> (Len(futures) + 1)) @@ responses
    /\ tx' = IF running THEN <<Packet(dev, cmd, inc, payload, NoCrc)>> ELSE <<>>
    /\ coros' = Append(coros, Coro(m, IF running THEN "write" ELSE "await",
                                   <<>>, Len(futures) + 1))
    /\ last' = Did(m, <<>>)
    /\ UNCHANGED <<events, tasks, running, motors_enabled>>

\* the body under `if self._enable_motors:` is not entered
skipped(m) ==
    /\ tx' = <<>>
    /\ last' = Did(m, <<>>)
    /\ UNCHANGED <<responses, events, tasks, inc, running, motors_enabled,
                   futures, coros>>

\* set_speeds without the `if self._enable_motors:` gate
set_speeds_ungated(left, right) ==
    send_only("set_speeds", 1, 4,
              I32(bound(left, -100, 100)) \o I32(bound(right, -100, 100)))

set_speeds(left, right) ==
    IF motors_enabled
    THEN send_only("set_speeds", 1, 4,
                   I32(bound(left, -100, 100)) \o I32(bound(right, -100, 100)))
    ELSE skipped("set_speeds")

set_left_speed(speed) ==
    IF motors_enabled
    THEN send_only("set_left_speed", 1, 6, I32(bound(speed, -100, 100)))
    ELSE skipped("set_left_speed")

set_right_speed(speed) ==
    IF motors_enabled
    THEN send_only("set_right_speed", 1, 7, I32(bound(speed, -100, 100)))
    ELSE skipped("set_right_speed")

drive_distance(distance) ==
    IF motors_enabled
    THEN request("drive_distance", 1, 8, I32(distance))
    ELSE skipped("drive_distance")

\* turn_right as called under the name m (turn_left awaits turn_right)
turn(m, angle) ==
    IF motors_enabled
    THEN request(m, 1, 12, I32(angle))
    ELSE skipped(m)

turn_right(angle) == turn("turn_right", angle)

turn_left(angle) == turn("turn_left", -angle)

arc(angle, radius) ==
    IF motors_enabled
    THEN request("arc", 1, 27, I32(angle) \o I32(radius))
    ELSE skipped("arc")

\* Marker is an Enum, not an IntEnum: after `self.inc` was read,
\* bound(position, Marker.UP, Marker.ERASE) compares an Enum member with
\* position and raises TypeError before a future exists or a frame is built
set_marker(position) ==
    IF motors_enabled
    THEN /\ inc < MaxInc
         /\ inc' = next_inc(inc)
         /\ tx' = <<>>
         /\ last' = [Did("set_marker", <<>>) EXCEPT !.exc = "TypeError"]
         /\ UNCHANGED <<responses, events, tasks, running, motors_enabled,
                        futures, coros>>
    ELSE skipped("set_marker")

\* names as UTF-8 byte strings: "R" and a name of PAYLOAD_LEN + 1 letters
Names == { <<82>>, [i \in 1..(PAYLOAD_LEN + 1) |-> 64 + i] }

\* Robot.set_name for a name of one-byte characters: the loop drops
\* characters from the end until the bytes fit the payload; the command
\* expects no reply
set_name(utf) ==
    LET fit == IF Len(utf) > PAYLOAD_LEN THEN SubSeq(utf, 1, PAYLOAD_LEN)
               ELSE utf
    IN  /\ inc' = next_inc(inc)
        /\ tx' = IF running THEN <<Packet(0, 1, inc, fit, NoCrc)>> ELSE <<>>
        /\ last' = Did("set_name", <<>>)
        /\ UNCHANGED <<responses, events, tasks, running, motors_enabled,
                       futures, coros>>

get_position == request("get_position", 1, 16, <<>>)

get_battery_level == request("get_battery_level", 14, 1, <<>>)

\* the transport accepted the frame of a request: write_packet returns and
\* the command goes on to `await future`
write_accepted(c) ==
    /\ c \in DOMAIN coros
    /\ coros[c].fut # 0
    /\ coros[c].pc = "write"
    /\ coros' = [coros EXCEPT ![c].pc = "await"]
    /\ tx' = <<>>
    /\ last' = Did("write_accepted", <<>>)
    /\ UNCHANGED <<responses, events, tasks, inc, running, motors_enabled,
                   futures>>

\* get_battery_level keeping the low byte of the voltage only
get_battery_level_low_byte(pkt) ==
    IF Truthy(pkt)
    THEN Obj(<<pkt.v.payload[6], pkt.v.payload[7]>>)
    ELSE Obj(<<0, 0>>)

\* the return expression of get_battery_level: (mV, percent)
get_battery_level_result(pkt) ==
    IF Truthy(pkt)
    THEN Obj(<<U16(pkt.v.payload, 4), pkt.v.payload[7]>>)
    ELSE Obj(<<0, 0>>)

\* the return expression of get_position, each component in tenths (the
\* integer p of `p / 10`)
get_position_result(pkt) ==
    IF Truthy(pkt)
    THEN Obj(<<S16(pkt.v.payload, 4), S16(pkt.v.payload, 6),
               S16(pkt.v.payload, 8)>>)
    ELSE Obj(<<0, 0, 0>>)

\* what the command fn returns after `packet = await future`; the motor
\* commands end with `await future` and return None
result_of(fn, pkt) ==
    IF fn = "get_battery_level" THEN get_battery_level_result(pkt)
    ELSE IF fn = "get_position" THEN get_position_result(pkt)
    ELSE None

\* `await future` returns once the future has a result
resume(c) ==
    /\ c \in DOMAIN coros
    /\ coros[c].fut # 0
    /\ coros[c].pc = "await"
    /\ futures[coros[c].fut].state = "done"
    /\ coros' = [coros EXCEPT
                   ![c].pc = "done",
                   ![c].ret = result_of(coros[c].fn,
                                        futures[coros[c].fut].result)]
    /\ tx' = <<>>
    /\ last' = Did("resume", <<>>)
    /\ UNCHANGED <<responses, events, tasks, inc, running, motors_enabled,
                   futures>>

(***************************************************************************)
(* Robot.say.  A phrase is the sequence of its code points, all below      *)
(* 2048 here.                                                              *)
(***************************************************************************)
\* str.encode("utf-8") of one character
utf8(cp) ==
    IF cp < 128 THEN <<cp>>
    ELSE <<192 + (cp \div 64), 128 + (cp % 64)>>

RECURSIVE encode(_)
encode(phrase) ==
    IF phrase = <<>> THEN <<>>
    ELSE utf8(Head(phrase)) \o encode(Tail(phrase))

\* buf[i : i + n], i counted from 0: the slice ends where buf ends
slice(buf, i, n) ==
    SubSeq(buf, i + 1, IF i + n < Len(buf) THEN i + n ELSE Len(buf))

\* say_chunks with slices of PAYLOAD_LEN - 1 bytes
RECURSIVE say_chunks_short(_, _)
say_chunks_short(buf, i) ==
    IF i >= Len(buf) THEN <<>>
    ELSE <<slice(buf, i, PAYLOAD_LEN - 1)>>
             \o say_chunks_short(buf, i + PAYLOAD_LEN - 1)

\* [buf[i : i + Packet.PAYLOAD_LEN]
\*     for i in range(i, len(buf), Packet.PAYLOAD_LEN)]
RECURSIVE say_chunks(_, _)
say_chunks(buf, i) ==
    IF i >= Len(buf) THEN <<>>
    ELSE <<slice(buf, i, PAYLOAD_LEN)>> \o say_chunks(buf, i + PAYLOAD_LEN)

\* the phrases a script says: "", "hello", one of PAYLOAD_LEN letters, and
\* one whose last character, U+00E9, has its two bytes in different chunks
Phrases ==
    { <<>>,
      <<104, 101, 108, 108, 111>>,
      [i \in 1..PAYLOAD_LEN |-> 96 + i],
      [i \in 1..PAYLOAD_LEN |-> IF i = PAYLOAD_LEN THEN 233 ELSE 96 + i] }

\* one iteration of the loop of say, up to its first suspension, by the
\* coroutines cs with c the one that runs say
say_iteration(cs, c) ==
    LET payload == say_chunks(cs[c].arg, 0)[cs[c].steps + 1]
    IN  /\ inc < MaxInc
        /\ Len(futures) < MaxFutures
        /\ inc' = next_inc(inc)
        /\ futures' = Append(futures, [state |-> "pending", result |-> None])
        /\ responses' = (<<5, 4, inc>> :> (Len(futures) + 1)) @@ responses
        /\ tx' = IF running THEN <<Packet(5, 4, inc, payload, NoCrc)>>
                 ELSE <<>>
        /\ coros' = [cs EXCEPT
                       ![c].pc = IF running THEN "write" ELSE "await",
                       ![c].fut = Len(futures) + 1,
                       ![c].steps = @ + 1]

\* the loop of say is over: the coroutine returns None
say_return(cs, c) ==
    /\ coros' = [cs EXCEPT ![c].pc = "done"]
    /\ tx' = <<>>
    /\ UNCHANGED <<responses, inc, futures>>

\* Robot.say, up to its first suspension or, for the empty phrase, its end
say(phrase) ==
    LET cs == Append(coros, [Coro("say", "start", <<>>, 0) EXCEPT
                               !.arg = encode(phrase)])
        c == Len(coros) + 1
    IN  /\ Len(coros) < MaxCoros
        /\ IF say_chunks(cs[c].arg, 0) = <<>>
           THEN say_return(cs, c)
           ELSE say_iteration(cs, c)
        /\ last' = Did("say", <<>>)
        /\ UNCHANGED <<events, tasks, running, motors_enabled>>

\* `await future` of say returns: the next iteration, or the end of the
\* loop
say_resume(c) ==
    /\ c \in DOMAIN coros
    /\ coros[c].fn = "say"
    /\ coros[c].pc = "await"
    /\ futures[coros[c].fut].state = "done"
    /\ IF coros[c].steps < Len(say_chunks(coros[c].arg, 0))
       THEN say_iteration(coros, c)
       ELSE say_return(coros, c)
    /\ last' = Did("say_resume", <<>>)
    /\ UNCHANGED <<events, tasks, running, motors_enabled>>

(***************************************************************************)
(* The specifications.                                                     *)
(***************************************************************************)
CoroIds == 1..MaxCoros

\* frames of the event classes and replies the engine handles
RxEngine ==
    { d \in RxData :
        Len(d) = PACKET_LEN => <<d[1], d[2]>> \notin {STALL_EVENT, CLIFF_EVENT} }

\* the engine: life cycle, registrations, requests, inbound frames, tasks
Next ==
    \/ run
    \/ stop
    \/ on_bump
    \/ \E data \in RxEngine : data_received(data)
    \/ \E t \in CoroIds : stop_task(t)
    \/ \E t \in CoroIds : stop_resume(t)
    \/ \E t \in CoroIds : handler_step(t)
    \/ get_position
    \/ get_battery_level
    \/ \E c \in CoroIds : write_accepted(c)
    \/ \E c \in CoroIds : resume(c)

Spec == Init /\ [][Next]_vars

\* frames of the stall and cliff events
RxMotor ==
    { d \in RxData :
        Len(d) = PACKET_LEN /\ <<d[1], d[2]>> \in {STALL_EVENT, CLIFF_EVENT} }

\* the motor commands and what gates them
MotorNext ==
    \/ run
    \/ \E enable \in BOOLEAN : enable_motors(enable)
    \/ \E data \in RxMotor : data_received(data)
    \/ \E left \in Scaled, right \in Scaled : set_speeds(left, right)
    \/ \E speed \in Scaled : set_left_speed(speed)
    \/ \E speed \in Scaled : set_right_speed(speed)
    \/ \E distance \in Scaled : drive_distance(distance)
    \/ \E angle \in Scaled : turn_right(angle)
    \/ \E angle \in Scaled : turn_left(angle)
    \/ \E angle \in Scaled, radius \in Scaled : arc(angle, radius)
    \/ \E position \in Positions : set_marker(position)
    \/ \E c \in CoroIds : write_accepted(c)

MotorSpec == Init /\ [][MotorNext]_vars

\* the stop notification, intact and damaged
RxStop ==
    { d \in RxData : Len(d) = PACKET_LEN /\ <<d[1], d[2]>> = STOP_EVENT }

\* the life cycle alone: run(), stop() and the stop notification
LiveNext ==
    \/ run
    \/ stop
    \/ \E data \in RxStop : data_received(data)
    \/ \E t \in CoroIds : stop_task(t)
    \/ \E t \in CoroIds : stop_resume(t)

\* the event loop runs every task that is ready, and the transport accepts
\* every write it was handed
LiveSpec ==
    /\ Init
    /\ [][LiveNext]_vars
    /\ \A t \in CoroIds : WF_vars(stop_task(t)) /\ WF_vars(stop_resume(t))

\* a request and its reply: the caller, the transport and the event loop
ReplyNext ==
    \/ run
    \/ get_battery_level
    \/ \E data \in RxReply : data_received(data)
    \/ \E c \in CoroIds : write_accepted(c)
    \/ \E c \in CoroIds : resume(c)

\* the transport accepts every write it was handed and the event loop
\* resumes every caller whose future has a result
ReplySpec ==
    /\ Init
    /\ [][ReplyNext]_vars
    /\ \A c \in CoroIds : WF_vars(write_accepted(c)) /\ WF_vars(resume(c))

\* the engine on a link that drops, damages frames and delivers chunks of
\* other sizes
LinkNext ==
    \/ run
    \/ stop
    \/ disconnected
    \/ get_battery_level
    \/ \E data \in RxLink : data_received(data)
    \/ \E c \in CoroIds : write_accepted(c)
    \/ \E c \in CoroIds : resume(c)
    \/ \E t \in CoroIds : stop_resume(t)

LinkSpec == Init /\ [][LinkNext]_vars

\* frames of the stop and bump events
RxWrite ==
    { to_bytes(Packet(0, 4, 0, <<>>, NoCrc)),
      to_bytes(Packet(12, 0, 0, P4(128), NoCrc)) }

\* commands, run(), stop() and event handlers, interleaved
WriteNext ==
    \/ run
    \/ stop
    \/ on_bump
    \/ \E enable \in BOOLEAN : enable_motors(enable)
    \/ \E data \in RxWrite : data_received(data)
    \/ \E t \in CoroIds : stop_task(t)
    \/ \E t \in CoroIds : stop_resume(t)
    \/ \E t \in CoroIds : handler_step(t)
    \/ get_battery_level
    \/ set_left_speed(50)
    \/ \E c \in CoroIds : write_accepted(c)

WriteSpec == Init /\ [][WriteNext]_vars

\* a script that talks
SayNext ==
    \/ run
    \/ stop
    \/ \E phrase \in Phrases : say(phrase)
    \/ \E data \in RxSay : data_received(data)
    \/ \E c \in CoroIds : write_accepted(c)
    \/ \E c \in CoroIds : say_resume(c)
    \/ \E t \in CoroIds : stop_resume(t)

SaySpec == Init /\ [][SayNext]_vars

\* the same, with a transport that accepts every write it was handed and
\* an event loop that resumes every coroutine that can continue
LinkFairSpec ==
    /\ LinkSpec
    /\ \A c \in CoroIds :
          /\ WF_vars(write_accepted(c))
          /\ WF_vars(resume(c))
          /\ WF_vars(stop_resume(c))

\* colour events and the handlers registered for them
ColorNext ==
    \/ run
    \/ \E filter \in ColorFilters : on_color(filter)
    \/ \E p \in RxColor : data_received(to_bytes(p))
    \/ \E t \in CoroIds : handler_step(t)

ColorSpec == Init /\ [][ColorNext]_vars

\* 19-byte frame bodies: those of the frames above, one of 0xFF bytes and
\* one of mixed bytes
Bodies ==
    { packet(p) : p \in RxEvents \cup RxBattery }
    \cup { [i \in 1..(PACKET_LEN - 1) |-> 255],
           [i \in 1..(PACKET_LEN - 1) |-> (37 * i) % 256] }

\* Packet(dev, cmd, inc, payload) built locally from a body: crc is None
body_packet(body) ==
    Packet(body[1], body[2], body[3], SubSeq(body, 4, PACKET_LEN - 1), NoCrc)

\* bit k (0 the lowest bit of the first byte) of a byte string inverted
flip_bit(raw, k) ==
    LET i == (k \div 8) + 1
        w == 2 ^ (k % 8)
    IN  [raw EXCEPT ![i] = IF (@ \div w) % 2 = 1 THEN @ - w ELSE @ + w]

\* a packet is constructed with one of the bodies
CrcInit ==
    /\ responses = EmptyMap
    /\ events = EmptyMap
    /\ tasks = EmptyMap
    /\ inc = 0
    /\ running = FALSE
    /\ motors_enabled = TRUE
    /\ futures = <<>>
    /\ coros = <<>>
    /\ tx = <<>>
    /\ \E body \in Bodies : last = Did("Packet", body)

\* Packet.to_bytes of the constructed packet
frame_built ==
    /\ last.op = "Packet"
    /\ last' = Did("to_bytes", to_bytes(body_packet(last.arg)))
    /\ UNCHANGED <<robot_vars, futures, coros, tx>>

\* the link inverts bit k of the frame before it is delivered
bit_flipped(k) ==
    /\ last.op = "to_bytes"
    /\ last' = Did("flipped", flip_bit(last.arg, k))
    /\ UNCHANGED <<robot_vars, futures, coros, tx>>

CrcNext ==
    \/ frame_built
    \/ \E k \in 0..(8 * PACKET_LEN - 1) : bit_flipped(k)

\* the frame check sequence on its own
CrcSpec == CrcInit /\ [][CrcNext]_vars

\* the sequence counter under a command that may be sent without end
IncNext ==
    \/ run
    \/ \E utf \in Names : set_name(utf)

IncSpec == Init /\ [][IncNext]_vars

\* requests while another command takes the sequence counter round
WrapNext ==
    \/ run
    \/ get_battery_level
    \/ set_name(<<82>>)
    \/ \E c \in CoroIds : write_accepted(c)

WrapSpec == Init /\ [][WrapNext]_vars

(***************************************************************************)
(* Properties.                                                             *)
(***************************************************************************)
\* the last step dispatched a CRC-valid frame of event class k while active
Dispatched(k) ==
    /\ last.op = "data_received"
    /\ last.arg # <<>>
    /\ <<last.arg[1], last.arg[2]>> = k

\* a step that is one of the eight motor-gated commands
MotorCommand ==
    \/ \E left \in Scaled, right \in Scaled : set_speeds(left, right)
    \/ \E speed \in Scaled : set_left_speed(speed)
    \/ \E speed \in Scaled : set_right_speed(speed)
    \/ \E distance \in Scaled : drive_distance(distance)
    \/ \E angle \in Scaled : turn_right(angle)
    \/ \E angle \in Scaled : turn_left(angle)
    \/ \E angle \in Scaled, radius \in Scaled : arc(angle, radius)
    \/ \E position \in Positions : set_marker(position)

Unfinished(K) ==
    { t \in DOMAIN coros : coros[t].key = K /\ ~Finished(coros[t]) }

\* what C1 requires of the step that handles the valid frame d
CorrelationPost(d) ==
    LET p == from_bytes(d)
        key == <<p.dev, p.cmd, p.inc>>
        hit == key \in DOMAIN responses
    IN  /\ \A k \in DOMAIN responses \ {key} :
              /\ k \in DOMAIN responses'
              /\ responses'[k] = responses[k]
        /\ \A f \in DOMAIN futures :
              (~hit \/ f # responses[key]) => futures'[f] = futures[f]
        /\ hit => /\ key \notin DOMAIN responses'
                  /\ futures'[responses[key]].state = "done"
                  /\ (futures[responses[key]].state = "pending"
                        => futures'[responses[key]].result = Obj(p))
        /\ last'.offered = EventLen(events, <<p.dev, p.cmd>>)

\* C1: while the engine is active, a CRC-valid inbound frame resolves and
\* removes only the pending slot registered under its exact (device,
\* command, sequence) triplet; every other slot stays in the table with its
\* future untouched, and the filter of every subscriber registered under
\* (device, command) is evaluated on the frame.
C1_CorrelationMatching ==
    [][(running /\ last'.op = "data_received" /\ last'.arg # <<>>
          /\ CrcChecked[last'.arg] /\ data_received(last'.arg))
          => CorrelationPost(last'.arg)]_vars

\* C1 witness: a frame has just resolved one future while another request
\* is still pending in the table
C1_Witness ==
    /\ last.op = "data_received"
    /\ last.resolved # 0
    /\ futures[last.resolved].state = "done"
    /\ \E k \in DOMAIN responses : futures[responses[k]].state = "pending"

\* C2 (as claimed): every handler invocation that the dispatch of one frame
\* started is still alive when that dispatch returns, none of them was
\* cancelled by the dispatch of the same frame.
C2_AllMatchingHandlersRun ==
    last.op = "data_received" =>
        \A i \in 1..Len(last.started) : coros[last.started[i]].pc # "cancelled"

C4_OneInvocationPerKey ==
    \A t \in DOMAIN coros :
        coros[t].key # <<>> => Cardinality(Unfinished(coros[t].key)) <= 1

\* C5 (as claimed): a motor-gated command that follows the dispatch of a
\* CRC-valid stall frame sends no frame.
C5_StallDisablesMotors ==
    [][(Dispatched(STALL_EVENT) /\ MotorCommand) => tx' = <<>>]_vars

\* C6 (as claimed): a motor-gated command that follows the dispatch of a
\* CRC-valid cliff frame whose payload byte 4 is 0 sends no frame.
C6_CliffDisablesMotors ==
    [][(Dispatched(CLIFF_EVENT) /\ last.arg[8] = 0 /\ MotorCommand)
          => tx' = <<>>]_vars

\* C7: with motors disabled every motor-gated command returns without an
\* error and changes nothing: no frame, no pending slot, no future, no
\* suspended caller, no sequence value consumed.
C7_DisabledMotorsNoOp ==
    [][(~motors_enabled /\ MotorCommand)
          => /\ UNCHANGED <<robot_vars, futures, coros>>
             /\ tx' = <<>>
             /\ last'.exc = ""]_vars

\* C7 witness: a motor-gated command was just called with motors disabled
\* on an active engine
C7_Witness ==
    /\ last.op \in MotorGated
    /\ ~motors_enabled
    /\ running

\* C8: after a CRC-valid stop notification was dispatched the engine
\* eventually is idle, also when further notifications cancel the stop that
\* is in progress; and the stop() the notification started hands the stop
\* command frame (0, 3, next sequence value) to the transport when it finds
\* the engine active.
C8_StopNotificationStops ==
    /\ Dispatched(STOP_EVENT) ~> ~running
    /\ [][\A t \in CoroIds :
            (running /\ stop_task(t)) => tx' = <<STOP_PACKET(inc)>>]_vars

\* C8 witness: the engine was just made idle by the stop() of a second
\* notification, which had cancelled the stop() of the first one
C8_Witness ==
    /\ last.op = "stop_resume"
    /\ ~running
    /\ \E a, b \in DOMAIN coros :
          /\ a < b
          /\ coros[a].key = STOP_EVENT /\ coros[a].pc = "cancelled"
          /\ coros[b].key = STOP_EVENT /\ coros[b].pc = "done"

\* C9: right after run() the engine is active, the sequence counter is 0,
\* the pending-response table and the event-task table are empty; a frame
\* sent by the step after run() carries sequence 0.
C9_RunResets ==
    /\ [](last.op = "run" =>
            /\ running
            /\ inc = 0
            /\ DOMAIN responses = {}
            /\ DOMAIN tasks = {})
    /\ [][(last.op = "run" /\ tx' # <<>>) => tx'[1].inc = 0]_vars

\* C9 witness: run() was just called while a request was outstanding and a
\* handler invocation was unfinished
C9_Witness ==
    /\ last.op = "run"
    /\ \E f \in DOMAIN futures : futures[f].state = "pending"
    /\ \E t \in DOMAIN coros : coros[t].key # <<>> /\ ~Finished(coros[t])

\* C10 (as claimed): right after run() motor commands are enabled.
C10_RunEnablesMotors == last.op = "run" => motors_enabled

\* C11: stop() called while the engine is active hands exactly one frame to
\* the transport, the stop command (device 0, command 3) with the current
\* sequence value, and leaves the engine active; the engine becomes idle
\* when stop() continues after the transport accepted the frame, and an
\* idle engine becomes active by run() alone.
C11_StopSendsThenIdles ==
    /\ [][(running /\ stop) => (tx' = <<STOP_PACKET(inc)>> /\ running')]_vars
    /\ [][\A t \in CoroIds : stop_resume(t) => (~running' /\ tx' = <<>>)]_vars
    /\ [][(~running /\ running') => run]_vars

\* C11 witness: a stop() called directly on an active engine has completed
\* and the engine is idle
C11_Witness ==
    /\ last.op = "stop_resume"
    /\ ~running
    /\ \E t \in DOMAIN coros :
          coros[t].fn = "stop" /\ coros[t].key = <<>> /\ coros[t].pc = "done"

\* C12 (as claimed): after the transport reported that the link dropped
\* the engine is idle.
C12_DisconnectIdles == last.op = "disconnected" => ~running

\* the pending slot registered under the triplet of the 20-byte string d
SlotOf(d) == <<d[1], d[2], d[3]>>

\* C13: get_battery_level called on an active engine hands exactly one
\* frame (device 14, command 1, the allocated sequence value) to the
\* transport; a CRC-valid frame whose triplet is that of a pending slot
\* resolves the future of that slot with the frame; and a call whose future
\* was so resolved eventually returns (mV, percent) read from payload bytes
\* 4..5 and 6 of that frame, (4000, 80) for the reply that reports them.
C13_RequestCompletes ==
    /\ [][(running /\ get_battery_level)
            => tx' = <<Packet(14, 1, inc, <<>>, NoCrc)>>]_vars
    /\ [][(running /\ last'.op = "data_received" /\ last'.arg # <<>>
            /\ SlotOf(last'.arg) \in DOMAIN responses
            /\ futures[responses[SlotOf(last'.arg)]].state = "pending")
            => /\ last'.resolved = responses[SlotOf(last'.arg)]
               /\ futures'[last'.resolved] =
                     [state |-> "done", result |-> Obj(from_bytes(last'.arg))]]_vars
    /\ \A c \in CoroIds :
          (/\ c \in DOMAIN coros
           /\ coros[c].fn = "get_battery_level"
           /\ last.op = "data_received"
           /\ last.resolved = coros[c].fut)
          ~> (/\ c \in DOMAIN coros
              /\ coros[c].fn = "get_battery_level"
              /\ coros[c].pc = "done"
              /\ LET b == futures[coros[c].fut].result.v.payload
                 IN  /\ coros[c].ret = Obj(<<b[5] * 256 + b[6], b[7]>>)
                     /\ (<<b[5], b[6], b[7]>> = <<15, 160, 80>>
                           => coros[c].ret = Obj(<<4000, 80>>)))

\* C13 witness: a get_battery_level call has returned (4000, 80)
C13_Witness ==
    \E c \in DOMAIN coros :
        /\ coros[c].fn = "get_battery_level"
        /\ coros[c].pc = "done"
        /\ coros[c].ret = Obj(<<4000, 80>>)
        /\ running

\* C14: the sequence counter always holds a value in 0..255; run() sets it
\* to 0; a command that allocates a sequence value puts the current value
\* in its frame and leaves the counter at that value plus one, 255 being
\* followed by 0; hence the k-th read after run() returns (k - 1) mod 256,
\* and the reads after the 256th repeat the values from 0 on.
C14_SequenceWraps ==
    /\ [](inc \in 0..255)
    /\ [][run => inc' = 0]_vars
    /\ [][\A utf \in Names : set_name(utf)
            => /\ inc' = (inc + 1) % 256
               /\ running => tx'[1].inc = inc]_vars
    /\ [](last.op = "run"
            => inc_reads(inc, MaxReads)
                 = [k \in 1..MaxReads |-> (k - 1) % 256])

\* C14 witness: a frame was just sent with sequence value 255 and the
\* counter is back at 0
C14_Witness ==
    /\ last.op = "set_name"
    /\ running
    /\ tx # <<>>
    /\ tx[1].inc = 255
    /\ inc = 0

\* C15: a locally constructed packet, which stores no CRC, fails
\* check_crc; the 20 bytes to_bytes makes of it, parsed by from_bytes, pass
\* check_crc; and with any single bit of those 20 bytes inverted, in the
\* body or in the CRC byte, the parsed frame fails check_crc.
C15_CrcRoundTrip ==
    /\ last.op = "Packet" => ~check_crc(body_packet(last.arg))
    /\ last.op = "to_bytes" =>
          /\ Len(last.arg) = PACKET_LEN
          /\ check_crc(from_bytes(last.arg))
    /\ last.op = "flipped" => ~check_crc(from_bytes(last.arg))

\* C15 witness: the inverted bit is in the last payload byte of the frame
\* of 0xFF bytes
C15_Witness ==
    /\ last.op = "flipped"
    /\ SubSeq(last.arg, 1, PACKET_LEN - 2) = [i \in 1..(PACKET_LEN - 2) |-> 255]
    /\ last.arg[PACKET_LEN - 1] # 255

\* C16 (as claimed): no filter entry is ignored: when the one registered
\* on_color filter holds a colour other than ANY that is in no reading of
\* the frame, the dispatch of the frame starts no handler.
C16_ColorFilterUsesEveryEntry ==
    (/\ Dispatched(COLOR_EVENT)
     /\ EventLen(events, COLOR_EVENT) = 1
     /\ events[COLOR_EVENT][1].farg # None)
    => LET filter == events[COLOR_EVENT][1].farg.v
           colors == Color_from_packet(from_bytes(last.arg))
       IN  (\E i \in 1..Len(filter) :
               /\ filter[i] # Color_ANY
               /\ \A j \in 1..Len(colors) : colors[j] # filter[i])
           => last.started = <<>>

\* C17: a chunk delivered while the engine is idle changes nothing: no
\* slot is removed or resolved, no task is started or cancelled, no field
\* of the engine changes and no error is raised, whatever the chunk is.
C17_IdleIgnoresFrames ==
    [][\A d \in RxLink :
         (~running /\ data_received(d))
         => /\ UNCHANGED <<robot_vars, futures, coros>>
            /\ last'.resolved = 0
            /\ last'.started = <<>>
            /\ last'.exc = ""]_vars

\* C17 witness: a chunk was just delivered to an idle engine in which the
\* slot of the first battery request is pending
C17_Witness ==
    /\ ~running
    /\ last.op = "data_received"
    /\ <<14, 1, 0>> \in DOMAIN responses
    /\ futures[responses[<<14, 1, 0>>]].state = "pending"

\* C18: a 20-byte frame whose CRC byte does not match, delivered while the
\* engine is active, changes nothing: the pending-response table, the
\* futures and the task table stay as they are, no task is started and no
\* error is raised.
C18_CrcMismatchDiscarded ==
    [][\A d \in RxCorrupt :
         (running /\ data_received(d))
         => /\ UNCHANGED <<robot_vars, futures, coros>>
            /\ last'.resolved = 0
            /\ last'.started = <<>>
            /\ last'.exc = ""]_vars

\* C18 witness: an active engine has just discarded a 20-byte frame while
\* the slot of the first battery request is pending (both damaged frames
\* of RxCorrupt match a slot or a subscription of this state)
C18_Witness ==
    /\ running
    /\ last.op = "data_received"
    /\ last.arg = <<>>
    /\ last.exc = ""
    /\ <<14, 1, 0>> \in DOMAIN responses
    /\ futures[responses[<<14, 1, 0>>]].state = "pending"
    /\ STOP_EVENT \in DOMAIN events

\* C19 (as claimed): no AssertionError leaves the receive callback.
C19_MisframedChunkRecovered ==
    last.op = "data_received" => last.exc # "AssertionError"

C21_SlotLeavesByDispatchOnly ==
    [][\A k \in DOMAIN responses :
         (running /\ futures[responses[k]].state = "pending")
         => \/ /\ k \in DOMAIN responses'
               /\ responses'[k] = responses[k]
            \/ /\ last'.op = "data_received"
               /\ last'.arg # <<>>
               /\ SlotOf(last'.arg) = k]_vars

\* C22 (as claimed): when a command registers a slot under (device,
\* command, sequence) on an active engine, no slot with a pending future
\* is in the table under that key.
C22_NoKeyCollision ==
    [][(running /\ get_battery_level)
         => ~(/\ <<14, 1, inc>> \in DOMAIN responses
              /\ futures[responses[<<14, 1, inc>>]].state = "pending")]_vars

\* a call that awaits a reply: suspended in the write or on its future
Awaiting(c) ==
    /\ c \in DOMAIN coros
    /\ coros[c].fut # 0
    /\ coros[c].pc \in {"write", "await"}

\* C23 (as claimed): once stop() has made the engine idle, every call that
\* awaits a reply is eventually released.
C23_StopReleasesCallers ==
    (last.op = "stop_resume" /\ ~running)
        ~> (\A c \in CoroIds : ~Awaiting(c))

\* bytes PAYLOAD_LEN * (k - 1) + 1 .. PAYLOAD_LEN * k of buf, as far as
\* buf has them
SayChunk(buf, k) ==
    LET rest == Len(buf) - PAYLOAD_LEN * (k - 1)
    IN  [i \in 1..(IF rest < PAYLOAD_LEN THEN rest ELSE PAYLOAD_LEN) |->
            buf[PAYLOAD_LEN * (k - 1) + i]]

RECURSIVE SayJoined(_, _)
SayJoined(buf, k) ==
    IF k = 0 THEN <<>> ELSE SayJoined(buf, k - 1) \o SayChunk(buf, k)

\* C24: every step of say on an active engine either sends the next chunk
\* of at most PAYLOAD_LEN bytes of the phrase's UTF-8 bytes, as a request
\* (5, 4) with the sequence value it has just allocated and after the
\* future of the chunk before it has a result, or ends the call when the
\* chunks sent, joined in order, are the phrase bytes; the empty phrase
\* ends at once, sends nothing and allocates nothing.
C24_SayChunksInOrder ==
    [][\A c \in DOMAIN coros' :
         (/\ last'.op \in {"say", "say_resume"}
          /\ coros'[c].fn = "say"
          /\ (c \notin DOMAIN coros \/ coros'[c] # coros[c]))
         => LET buf == coros'[c].arg
                k == coros'[c].steps
                before == IF c \in DOMAIN coros THEN coros[c].steps ELSE 0
            IN  /\ buf = <<>> =>
                      /\ coros'[c].pc = "done"
                      /\ tx' = <<>>
                      /\ inc' = inc
                      /\ responses' = responses
                /\ tx' # <<>> =>
                      /\ running
                      /\ k = before + 1
                      /\ Len(SayChunk(buf, k)) \in 1..PAYLOAD_LEN
                      /\ tx' = <<Packet(5, 4, inc, SayChunk(buf, k), NoCrc)>>
                      /\ inc' = next_inc(inc)
                      /\ <<5, 4, inc>> \in DOMAIN responses'
                      /\ responses'[<<5, 4, inc>>] = coros'[c].fut
                      /\ before > 0 =>
                            futures[coros[c].fut].state = "done"
                /\ coros'[c].pc = "done" =>
                      /\ tx' = <<>>
                      /\ SayJoined(buf, k) = buf
                /\ (running /\ coros'[c].pc # "done") => tx' # <<>>]_vars

\* the call that says fifteen letters and U+00E9 has ended after two chunks
C24_Witness ==
    \E c \in DOMAIN coros :
        /\ coros[c].fn = "say"
        /\ coros[c].pc = "done"
        /\ coros[c].steps = 2
        /\ Len(coros[c].arg) = PAYLOAD_LEN + 1
        /\ coros[c].arg[PAYLOAD_LEN] = 195
        /\ coros[c].arg[PAYLOAD_LEN + 1] = 169

IdleCall(c) ==
    /\ last.op = "get_battery_level"
    /\ ~running
    /\ Len(coros) = c

\* C26: a get_battery_level invoked on an idle engine registers a slot
\* with a pending future, hands nothing to the transport and suspends on
\* the future; from then on the future never gets a result and the call
\* never returns, whatever frames, run() and stop() follow.
C26_IdleRequestNeverCompletes ==
    /\ [][(~running /\ get_battery_level)
            => /\ tx' = <<>>
               /\ <<14, 1, inc>> \in DOMAIN responses'
               /\ responses'[<<14, 1, inc>>] = Len(futures')
               /\ futures'[Len(futures')].state = "pending"
               /\ coros'[Len(coros')].fut = Len(futures')
               /\ coros'[Len(coros')].pc = "await"]_vars
    /\ \A c \in CoroIds :
          [](IdleCall(c)
               => [](/\ c \in DOMAIN coros
                     /\ coros[c].fn = "get_battery_level"
                     /\ coros[c].pc = "await"
                     /\ futures[coros[c].fut].state = "pending"))

\* a get_battery_level has just been invoked on an engine that stop() had
\* made idle
C26_Witness ==
    /\ IdleCall(Len(coros))
    /\ tx = <<>>
    /\ coros[Len(coros)].pc = "await"
    /\ futures[coros[Len(coros)].fut].state = "pending"
    /\ \E t \in DOMAIN coros : coros[t].fn = "stop" /\ coros[t].pc = "done"

====
